---- MODULE Spec2Model ----
(***************************************************************************)
(* THP-OCR: the command line interface (Cli), the OCR engine (Ocr) and the *)
(* prompt builder, modelled as one run of the program: either the CLI      *)
(* entry point (main -> Cli.run -> Cli.processImage -> Ocr.extract) or a   *)
(* direct library call (new Ocr(source).extract(options)).  Every await of *)
(* the code is a suspension point; one action is the code that runs from   *)
(* one await to the next.                                                  *)
(***************************************************************************)
EXTENDS Integers, Sequences, FiniteSets, TLC

VARIABLES
    mode,           \* "cli": started by main(); "lib": a caller of Ocr.extract
    argv,           \* process.argv.slice(2)
    hasCredentials, \* the provider API key is in the process environment
    options,        \* CliOptions returned by parseArgs
    imageSource,    \* Ocr.imageSource (the constructor argument)
    optFormat,      \* the format field of the OcrOptions handed to extract
    format,         \* the format parameter inside extract, after defaulting
    pc,             \* position of the run
    load,           \* outcome of the image read or fetch of loadImageBase64
    imageBase64,    \* the local imageBase64 of extract
    messages,       \* the messages handed to generateObject
    provider,       \* the outcome of the generateObject call
    ocrResult,      \* the local ocrResult of extract
    result,         \* what Ocr.extract returned or threw
    stages,         \* the pipeline stages of the extract call, in order run
    fetchCount,     \* number of axios.get calls
    readCount,      \* number of fs.readFile calls
    statCount,      \* number of fs.stat calls
    providerCalls,  \* number of generateObject calls
    jsonParsed,     \* JSON.parse was applied to the raw response
    stdout,         \* what console.log wrote
    stderr,         \* what console.error wrote
    exitCode,       \* process exit status, NoExit while running
    ocrs,           \* concurrent calls: imageSource of each Ocr instance
    calls,          \* concurrent calls: the locals of each extract call
    started         \* concurrent calls: the calls in the order they began

vars == <<mode, argv, hasCredentials, options, imageSource, optFormat, format,
          pc, load, imageBase64, messages, provider, ocrResult, result, stages,
          fetchCount, readCount, statCount, providerCalls, jsonParsed,
          stdout, stderr, exitCode, ocrs, calls, started>>

----------------------------------------------------------------------------
(* Bounds *)

MaxRawLen == 2      \* provider responses of every length up to this one
MaxArgs == 3        \* argument lists of every length up to this one

----------------------------------------------------------------------------
(* Strings are sequences of one-character strings, so that JSON.parse can  *)
(* be computed on them.                                                    *)

Quote == "\""

RawAlphabet == {"[", "]", Quote, "0", "1"}

RECURSIVE SeqsUpTo(_, _)
SeqsUpTo(S, n) ==
    IF n = 0 THEN {<<>>}
    ELSE LET shorter == SeqsUpTo(S, n - 1)
         IN  shorter \cup {Append(s, c) : s \in {t \in shorter : Len(t) = n - 1}, c \in S}

SampleEmptyObject == <<"{", "}">>
SampleObject == <<"{", Quote, "a", Quote, ":", Quote, "b", Quote, "}">>
SampleTable == <<"[", "[", "1", ",", "0", "]", ",", "[", "]", "]">>
SampleBroken == <<"{", "n", "o", "t", " ", "v", "a", "l", "i", "d", " ", "j", "s", "o", "n">>
SampleNull == <<"n", "u", "l", "l">>
SampleString == <<Quote, "o", "k", Quote>>
SampleText == <<"h", "e", "l", "l", "o">>
SampleDuplicate == <<"{", Quote, "a", Quote, ":", "1", ",", Quote, "a", Quote, ":", "0", "}">>

RawStrings ==
    SeqsUpTo(RawAlphabet, MaxRawLen)
        \cup {SampleEmptyObject, SampleObject, SampleTable, SampleBroken,
              SampleNull, SampleString, SampleText, SampleDuplicate}

----------------------------------------------------------------------------
(* JSON.parse, by recursive descent.  A parse result is a record           *)
(* [ok, pos, val]: pos is the index of the first character not consumed.   *)
(* JavaScript values are records [t, v]: [t |-> "num", v |-> n],           *)
(* [t |-> "str", v |-> chars], [t |-> "bool", v |-> b], [t |-> "null"],    *)
(* [t |-> "arr", v |-> sequence of values], [t |-> "obj", v |-> function   *)
(* from keys to values], [t |-> "error", v |-> message].                   *)

Null == [t |-> "null", v |-> <<>>]

Str(chars) == [t |-> "str", v |-> chars]

Digits == {"0", "1", "2", "3", "4", "5", "6", "7", "8", "9"}

DigitVal(c) ==
    CASE c = "0" -> 0 [] c = "1" -> 1 [] c = "2" -> 2 [] c = "3" -> 3
      [] c = "4" -> 4 [] c = "5" -> 5 [] c = "6" -> 6 [] c = "7" -> 7
      [] c = "8" -> 8 [] c = "9" -> 9

Whitespace == {" ", "\n", "\t", "\r"}

ParseFail == [ok |-> FALSE, pos |-> 0, val |-> [t |-> "none", v |-> 0]]

ParseOk(p, value) == [ok |-> TRUE, pos |-> p, val |-> value]

RECURSIVE SkipWs(_, _)
SkipWs(s, i) ==
    IF i <= Len(s) /\ s[i] \in Whitespace THEN SkipWs(s, i + 1) ELSE i

\* does the text lit start at index i of s
StartsWith(s, i, lit) ==
    /\ i + Len(lit) - 1 <= Len(s)
    /\ \A k \in 1..Len(lit) : s[i + k - 1] = lit[k]

\* the digits of an integer starting at i, after the first digit was read
RECURSIVE ParseDigits(_, _, _)
ParseDigits(s, i, acc) ==
    IF i <= Len(s) /\ s[i] \in Digits
    THEN ParseDigits(s, i + 1, acc * 10 + DigitVal(s[i]))
    ELSE ParseOk(i, [t |-> "num", v |-> acc])

\* a number: 0, or a non-zero digit followed by digits (no sign, fraction
\* or exponent in the modelled alphabet: "-", ".", "e" end the number)
ParseNumber(s, i) ==
    IF s[i] = "0" THEN ParseOk(i + 1, [t |-> "num", v |-> 0])
    ELSE ParseDigits(s, i + 1, DigitVal(s[i]))

\* a string: the characters up to the closing quote; a backslash or a
\* control character inside it is rejected (escapes are not modelled)
RECURSIVE ParseChars(_, _, _)
ParseChars(s, i, acc) ==
    IF i > Len(s) THEN ParseFail
    ELSE IF s[i] = Quote THEN ParseOk(i + 1, Str(acc))
    ELSE IF s[i] \in {"\\", "\n", "\t", "\r"} THEN ParseFail
    ELSE ParseChars(s, i + 1, Append(acc, s[i]))

\* obj with key k bound to value x: a later duplicate key replaces the earlier
PutMember(obj, k, x) ==
    [key \in (DOMAIN obj) \cup {k} |-> IF key = k THEN x ELSE obj[key]]

EmptyObject == [key \in {} |-> 0]

RECURSIVE ParseValue(_, _), ParseElements(_, _, _), ParseMembers(_, _, _)

ParseValue(s, i0) ==
    LET i == SkipWs(s, i0)
    IN  IF i > Len(s) THEN ParseFail
        ELSE IF s[i] = "{" THEN
            LET j == SkipWs(s, i + 1)
            IN  IF j <= Len(s) /\ s[j] = "}"
                THEN ParseOk(j + 1, [t |-> "obj", v |-> EmptyObject])
                ELSE ParseMembers(s, j, EmptyObject)
        ELSE IF s[i] = "[" THEN
            LET j == SkipWs(s, i + 1)
            IN  IF j <= Len(s) /\ s[j] = "]"
                THEN ParseOk(j + 1, [t |-> "arr", v |-> <<>>])
                ELSE ParseElements(s, j, <<>>)
        ELSE IF s[i] = Quote THEN ParseChars(s, i + 1, <<>>)
        ELSE IF s[i] \in Digits THEN ParseNumber(s, i)
        ELSE IF StartsWith(s, i, <<"n", "u", "l", "l">>)
            THEN ParseOk(i + 4, Null)
        ELSE IF StartsWith(s, i, <<"t", "r", "u", "e">>)
            THEN ParseOk(i + 4, [t |-> "bool", v |-> TRUE])
        ELSE IF StartsWith(s, i, <<"f", "a", "l", "s", "e">>)
            THEN ParseOk(i + 5, [t |-> "bool", v |-> FALSE])
        ELSE ParseFail

\* the elements of an array from index i on, acc holding those read so far
ParseElements(s, i, acc) ==
    LET e == ParseValue(s, i)
    IN  IF ~e.ok THEN ParseFail
        ELSE LET j == SkipWs(s, e.pos)
                 sofar == Append(acc, e.val)
             IN  IF j > Len(s) THEN ParseFail
                 ELSE IF s[j] = "]" THEN ParseOk(j + 1, [t |-> "arr", v |-> sofar])
                 ELSE IF s[j] = "," THEN ParseElements(s, j + 1, sofar)
                 ELSE ParseFail

\* the members of an object from index i on, obj holding those read so far
ParseMembers(s, i0, obj) ==
    LET i == SkipWs(s, i0)
    IN  IF i > Len(s) \/ s[i] # Quote THEN ParseFail
        ELSE LET k == ParseChars(s, i + 1, <<>>)
             IN  IF ~k.ok THEN ParseFail
                 ELSE LET c == SkipWs(s, k.pos)
                      IN  IF c > Len(s) \/ s[c] # ":" THEN ParseFail
                          ELSE LET x == ParseValue(s, c + 1)
                               IN  IF ~x.ok THEN ParseFail
                                   ELSE LET j == SkipWs(s, x.pos)
                                            sofar == PutMember(obj, k.val.v, x.val)
                                        IN  IF j > Len(s) THEN ParseFail
                                            ELSE IF s[j] = "}"
                                                THEN ParseOk(j + 1, [t |-> "obj", v |-> sofar])
                                            ELSE IF s[j] = ","
                                                THEN ParseMembers(s, j + 1, sofar)
                                            ELSE ParseFail

\* JSON.parse(s): the decoded value, or a SyntaxError
JSONParse(s) ==
    LET r == ParseValue(s, 1)
    IN  IF r.ok /\ SkipWs(s, r.pos) = Len(s) + 1
        THEN [ok |-> TRUE, val |-> r.val]
        ELSE [ok |-> FALSE, val |-> [t |-> "none", v |-> 0]]

----------------------------------------------------------------------------
(* Values shared by the CLI and the OCR engine *)

Undefined == "undefined"

SUPPORTED_FORMATS == <<"text", "json", "markdown">>

Formats == {SUPPORTED_FORMATS[i] : i \in DOMAIN SUPPORTED_FORMATS}

LocalImage == "image.png"
RemoteImage == "https://example.com/x.png"
LibraryImage == "test_data/test_2.png"

\* the modelled strings that new URL(source) accepts
UrlStrings == {RemoteImage}

isUrl(source) == source \in UrlStrings

\* path.resolve of a relative path: the working directory is prefixed
pathResolve(p) == "/cwd/" \o p

Includes(args, x) == \E i \in DOMAIN args : args[i] = x

\* Array.findIndex for the -t/--type flag; 0 stands for JavaScript's -1
FormatIndex(args) ==
    IF \E i \in DOMAIN args : args[i] \in {"-t", "--type"}
    THEN CHOOSE i \in DOMAIN args :
            /\ args[i] \in {"-t", "--type"}
            /\ \A j \in 1..(i - 1) : args[j] \notin {"-t", "--type"}
    ELSE 0

\* args[i], undefined past the end
ArgAt(args, i) == IF i \in DOMAIN args THEN args[i] ELSE Undefined

\* args.splice(i, 2)
Splice2(args, i) ==
    SubSeq(args, 1, i - 1) \o SubSeq(args, i + 2, Len(args))

isValidFormat(f) == Includes(SUPPORTED_FORMATS, f)

\* a parseArgs that looks for -h/--help in the first argument only
parseArgsHelpFirstOnly(args) ==
    LET showHelp == Len(args) > 0 /\ args[1] \in {"-h", "--help"}
        showVersion == Includes(args, "-v") \/ Includes(args, "--version")
        formatIndex == FormatIndex(args)
        formatValue == ArgAt(args, formatIndex + 1)
        taken == formatIndex # 0 /\ isValidFormat(formatValue)
        rest == IF taken THEN Splice2(args, formatIndex) ELSE args
    IN  [showHelp |-> showHelp,
         showVersion |-> showVersion,
         format |-> IF taken THEN formatValue ELSE Undefined,
         imagePath |-> IF Len(rest) > 0
                       THEN (IF isUrl(rest[1]) THEN rest[1] ELSE pathResolve(rest[1]))
                       ELSE Undefined]

parseArgs(args) ==
    LET showHelp == Includes(args, "-h") \/ Includes(args, "--help")
        showVersion == Includes(args, "-v") \/ Includes(args, "--version")
        formatIndex == FormatIndex(args)
        formatValue == ArgAt(args, formatIndex + 1)
        taken == formatIndex # 0 /\ isValidFormat(formatValue)
        rest == IF taken THEN Splice2(args, formatIndex) ELSE args
    IN  [showHelp |-> showHelp,
         showVersion |-> showVersion,
         format |-> IF taken THEN formatValue ELSE Undefined,
         imagePath |-> IF Len(rest) > 0
                       THEN (IF isUrl(rest[1]) THEN rest[1] ELSE pathResolve(rest[1]))
                       ELSE Undefined]

NoOptions ==
    [showHelp |-> FALSE, showVersion |-> FALSE, format |-> Undefined,
     imagePath |-> Undefined]

\* a default of "json" in place of "text"
DefaultFormatJson(f) == IF f = Undefined THEN "json" ELSE f

\* a parameter default: format = "text"
DefaultFormat(f) == IF f = Undefined THEN "text" ELSE f

----------------------------------------------------------------------------
(* Buffer.toString("base64") *)

B64Alphabet ==
    <<"A", "B", "C", "D", "E", "F", "G", "H", "I", "J", "K", "L", "M",
      "N", "O", "P", "Q", "R", "S", "T", "U", "V", "W", "X", "Y", "Z",
      "a", "b", "c", "d", "e", "f", "g", "h", "i", "j", "k", "l", "m",
      "n", "o", "p", "q", "r", "s", "t", "u", "v", "w", "x", "y", "z",
      "0", "1", "2", "3", "4", "5", "6", "7", "8", "9", "+", "/">>

B64(n) == B64Alphabet[n + 1]

RECURSIVE toBase64(_)
toBase64(b) ==
    IF Len(b) = 0 THEN <<>>
    ELSE IF Len(b) = 1 THEN
        <<B64(b[1] \div 4), B64((b[1] % 4) * 16), "=", "=">>
    ELSE IF Len(b) = 2 THEN
        <<B64(b[1] \div 4), B64((b[1] % 4) * 16 + b[2] \div 16),
          B64((b[2] % 16) * 4), "=">>
    ELSE
        <<B64(b[1] \div 4), B64((b[1] % 4) * 16 + b[2] \div 16),
          B64((b[2] % 16) * 4 + b[3] \div 64), B64(b[3] % 64)>>
            \o toBase64(SubSeq(b, 4, Len(b)))

\* the contents an image file or a response body can have
ImageBytes == {<<137, 80, 78, 71>>, <<255, 216, 255>>}

----------------------------------------------------------------------------
(* Prompts.  A template literal is the sequence of its parts.              *)

SystemPrompt == "You are THP-OCR Agent, ... Always store the result in the 'response' field, and clearly indicate success or failure in the extraction process."

UserPrompt(f) ==
    <<"Extract all text from this image accurately. RESPOND IN THE '",
      f,
      "' FORMAT SPECIFIED BELOW AND STORE THE RESULT IN THE '",
      "response",
      "' FIELD OF THE SCHEMA. ...">>

\* the messages with the image part put before the text part
getOCRPromptMessagesImageFirst(image, f) ==
    << [role |-> "system", content |-> SystemPrompt],
       [role |-> "user",
        content |-> << [type |-> "image", image |-> image],
                       [type |-> "text", text |-> UserPrompt(f)] >>] >>

getOCRPromptMessages(image, f) ==
    << [role |-> "system", content |-> SystemPrompt],
       [role |-> "user",
        content |-> << [type |-> "text", text |-> UserPrompt(f)],
                       [type |-> "image", image |-> image] >>] >>

----------------------------------------------------------------------------
(* The OCR engine: Ocr.aiOCR and Ocr.extract *)

Return(x) == [kind |-> "return", val |-> x]

Throw(message) == [kind |-> "throw", val |-> [t |-> "error", v |-> message]]

NoResult == [kind |-> "pending", val |-> Null]

\* JavaScript truthiness, as tested by !ocrResult and if (result)
Falsy(x) ==
    \/ x.t \in {"null", "undefined"}
    \/ x.t = "str" /\ x.v = <<>>
    \/ x.t = "num" /\ x.v = 0
    \/ x.t = "bool" /\ x.v = FALSE

\* the object a provider reply carries: its response field is a string,
\* some other value, or missing
Payload(x) == [response |-> x]

NoPayload == Payload([t |-> "undefined", v |-> <<>>])

Payloads ==
    {Payload(Str(r)) : r \in RawStrings}
        \cup {Payload([t |-> "num", v |-> 42]), NoPayload}

Rejected(why) == [kind |-> "rejected", reason |-> why, payload |-> NoPayload]

Resolved(p) == [kind |-> "resolved", reason |-> "", payload |-> p]

NoOutcome == [kind |-> "pending", reason |-> "", payload |-> NoPayload]

\* how the provider call can end: without an API key the request is never
\* sent and the call rejects
ProviderOutcomes(credentials) ==
    IF credentials
    THEN {Rejected("network error"), Rejected("provider error")}
            \cup {Resolved(p) : p \in Payloads}
    ELSE {Rejected("API key is missing")}

\* a schema that accepts any response field
ocrResponseSchemaAny(p) == TRUE

\* z.object({ response: z.string() })
ocrResponseSchema(p) == p.response.t = "str"

\* generateObject({ model, schema, messages }): resolves with the validated
\* object, rejects when the call fails or the payload fails the schema
generateObject(outcome) ==
    IF outcome.kind = "resolved" /\ ocrResponseSchema(outcome.payload)
    THEN [ok |-> TRUE, object |-> outcome.payload]
    ELSE [ok |-> FALSE, object |-> NoPayload]

\* aiOCR without its catch handler: the rejection propagates
aiOCRRethrows(outcome) ==
    LET res == generateObject(outcome)
    IN  IF res.ok THEN Return(res.object.response) ELSE Throw(outcome.reason)

\* aiOCR: .then((res) => res.object.response).catch(() => null)
aiOCR(outcome) ==
    LET res == generateObject(outcome)
    IN  IF res.ok THEN Return(res.object.response) ELSE Return(Null)

\* the two console.error calls of aiOCR's catch handler
aiOCRLog(outcome) ==
    IF generateObject(outcome).ok THEN <<>>
    ELSE <<"provider error detail",
           "Error: Failed to extract text from image. Please try again. ">>

\* the digit of a value below ten
DigitChar(n) == CHOOSE c \in Digits : DigitVal(c) = n

RECURSIVE NumToChars(_)
NumToChars(n) ==
    IF n < 10 THEN <<DigitChar(n)>>
    ELSE NumToChars(n \div 10) \o <<DigitChar(n % 10)>>

\* JSON.parse converts its argument to a string first; only strings and
\* numbers are modelled as arguments
toStringJS(x) ==
    CASE x.t = "str" -> x.v
      [] x.t = "num" -> NumToChars(x.v)
      [] OTHER -> <<>>

\* extract after `await this.aiOCR(...)` completed with c: the result of the
\* call, whether the format step was reached, whether JSON.parse was applied
extractTail(f, c) ==
    IF c.kind = "throw"
    THEN [result |-> c, formatted |-> FALSE, jsonParsed |-> FALSE]
    ELSE IF Falsy(c.val)
    THEN [result |-> Return(Null), formatted |-> FALSE, jsonParsed |-> FALSE]
    ELSE IF f = "json"
    THEN LET parsed == JSONParse(toStringJS(c.val))
         IN  [result |-> IF parsed.ok THEN Return(parsed.val)
                         ELSE Throw("SyntaxError: Unexpected token in JSON"),
              formatted |-> TRUE, jsonParsed |-> TRUE]
    ELSE [result |-> Return(c.val), formatted |-> TRUE, jsonParsed |-> FALSE]

\* how the read or fetch of loadImageBase64 can end
Loaded(b) == [ok |-> TRUE, bytes |-> b, error |-> ""]

LoadError(message) == [ok |-> FALSE, bytes |-> <<>>, error |-> message]

LoadOutcomes(source) ==
    {Loaded(b) : b \in ImageBytes}
        \cup (IF isUrl(source)
              THEN {LoadError("Request failed with status code 404"),
                    LoadError("getaddrinfo ENOTFOUND")}
              ELSE {LoadError("ENOENT: no such file or directory"),
                    LoadError("EISDIR: illegal operation on a directory")})

\* the message of the Error loadImageBase64 throws
LoadErrorMessage(source, error) ==
    IF isUrl(source)
    THEN "Failed to fetch image from URL: " \o error
    ELSE "Failed to read local image file: " \o error

----------------------------------------------------------------------------
(* Initial states *)

ArgTokens ==
    {"-h", "--help", "-v", "--version", "-t", "--type",
     "text", "json", "markdown", "xml", LocalImage, RemoteImage}

ArgLists == SeqsUpTo(ArgTokens, MaxArgs)

NoExit == -1

Init ==
    /\ mode \in {"cli", "lib"}
    /\ hasCredentials \in BOOLEAN
    /\ IF mode = "cli"
       THEN /\ argv \in ArgLists
            /\ imageSource = Undefined
            /\ optFormat = Undefined
       ELSE /\ argv = <<>>
            /\ imageSource \in {LibraryImage, RemoteImage}
            /\ optFormat \in Formats \cup {Undefined}
    /\ options = NoOptions
    /\ format = Undefined
    /\ pc = "start"
    /\ load = "none"
    /\ imageBase64 = <<>>
    /\ messages = <<>>
    /\ provider = NoOutcome
    /\ ocrResult = Null
    /\ result = NoResult
    /\ stages = <<>>
    /\ fetchCount = 0
    /\ readCount = 0
    /\ statCount = 0
    /\ providerCalls = 0
    /\ jsonParsed = FALSE
    /\ stdout = <<>>
    /\ stderr = <<>>
    /\ exitCode = NoExit
    /\ ocrs = <<>>
    /\ calls = <<>>
    /\ started = <<>>

----------------------------------------------------------------------------
(* Ocr.extract up to its first await *)

\* a loadImageBase64 that reads the file system whatever the reference is
beginLoadAlwaysReads(source) ==
    /\ load' = "pending"
    /\ stages' = Append(stages, "load")
    /\ readCount' = readCount + 1
    /\ UNCHANGED fetchCount
    /\ pc' = "load"

\* loadImageBase64 up to its await: axios.get for a URL, fs.readFile otherwise
beginLoad(source) ==
    /\ load' = "pending"
    /\ stages' = Append(stages, "load")
    /\ IF isUrl(source)
       THEN fetchCount' = fetchCount + 1 /\ UNCHANGED readCount
       ELSE readCount' = readCount + 1 /\ UNCHANGED fetchCount
    /\ pc' = "load"

\* new Ocr(source) followed by extract({ format: f }), up to the first await
callExtract(source, f) ==
    /\ imageSource' = source
    /\ optFormat' = f
    /\ format' = DefaultFormat(f)
    /\ beginLoad(source)

\* no Ocr is constructed and extract is not called
noExtract ==
    UNCHANGED <<imageSource, optFormat, format, load, stages, fetchCount, readCount>>

\* a caller of the library calls extract on its Ocr instance
LibExtract ==
    /\ mode = "lib"
    /\ pc = "start"
    /\ callExtract(imageSource, optFormat)
    /\ UNCHANGED <<ocrs, calls, started, mode, argv, hasCredentials, options, imageBase64, messages,
                   provider, ocrResult, result, statCount, providerCalls,
                   jsonParsed, stdout, stderr, exitCode>>

----------------------------------------------------------------------------
(* The command line interface *)

showHelp(out) == Append(out, "help")

showVersion(out) == Append(out, "THP-OCR: v1.0.0")

\* run returns normally and the process ends with status 0
runReturn == exitCode' = 0 /\ pc' = "done"

\* the catch of Cli.run: print error.message, process.exit(1)
runCatch(err, message) ==
    /\ stderr' = Append(err, message)
    /\ exitCode' = 1
    /\ pc' = "exited"

\* the catch of processImage rethrows the error with a prefix; run catches it
processImageThrow(err, message) ==
    runCatch(err, "Failed to process image: " \o message)

\* processImage(source, f) up to its first await
processImageBegin(source, f, out) ==
    IF ~isUrl(source)
    THEN /\ statCount' = statCount + 1
         /\ pc' = "stat"
         /\ stdout' = out
         /\ noExtract
         /\ UNCHANGED <<stderr, exitCode>>
    ELSE /\ stdout' = Append(out, "Processing image")
         /\ callExtract(source, DefaultFormat(f))
         /\ UNCHANGED <<statCount, stderr, exitCode>>

\* main() -> new Cli().run(), up to the first await of processImage
CliRun ==
    /\ mode = "cli"
    /\ pc = "start"
    /\ LET o == parseArgs(argv)
           out == Append(stdout, "Welcome to THP-OCR!")
       IN  /\ options' = o
           /\ IF o.showHelp /\ o.showVersion THEN
                  /\ stdout' = showVersion(showHelp(out))
                  /\ runReturn
                  /\ noExtract
                  /\ UNCHANGED <<stderr, statCount>>
              ELSE IF o.showVersion THEN
                  /\ stdout' = showVersion(out)
                  /\ runReturn
                  /\ noExtract
                  /\ UNCHANGED <<stderr, statCount>>
              ELSE IF o.showHelp THEN
                  /\ stdout' = showHelp(out)
                  /\ runReturn
                  /\ noExtract
                  /\ UNCHANGED <<stderr, statCount>>
              ELSE IF o.imagePath = Undefined THEN
                  /\ stdout' = showHelp(out)
                  /\ stderr' = Append(stderr, "Error: Please provide an image path!")
                  /\ exitCode' = 1
                  /\ pc' = "exited"
                  /\ noExtract
                  /\ UNCHANGED statCount
              ELSE IF o.format # Undefined /\ ~isValidFormat(o.format) THEN
                  \* showFormatError
                  /\ stderr' = Append(stderr, "Error: Invalid format specified!")
                  /\ stdout' = showHelp(Append(out, "Supported formats: text, json, markdown"))
                  /\ exitCode' = 1
                  /\ pc' = "exited"
                  /\ noExtract
                  /\ UNCHANGED statCount
              ELSE processImageBegin(o.imagePath, o.format, out)
    /\ UNCHANGED <<ocrs, calls, started, mode, argv, hasCredentials, imageBase64, messages, provider,
                   ocrResult, result, providerCalls, jsonParsed>>

\* how fs.stat can end
StatOutcomes == {"file", "directory", "ENOENT: no such file or directory"}

\* processImage after `await fs.stat(imageSource)`
StatReturn ==
    /\ mode = "cli"
    /\ pc = "stat"
    /\ \E st \in StatOutcomes :
          IF st = "file"
          THEN /\ stdout' = Append(stdout, "Processing image")
               /\ callExtract(options.imagePath, DefaultFormat(options.format))
               /\ UNCHANGED <<stderr, exitCode>>
          ELSE /\ processImageThrow(stderr,
                      IF st = "directory" THEN "Path exists but is not a file" ELSE st)
               /\ noExtract
               /\ UNCHANGED stdout
    /\ UNCHANGED <<ocrs, calls, started, mode, argv, hasCredentials, options, imageBase64, messages,
                   provider, ocrResult, result, statCount, providerCalls,
                   jsonParsed>>

\* processImage after `await ocr.extract({ format })` completed with r
processImageTail(r, err) ==
    IF r.kind = "throw"
    THEN processImageThrow(err, r.val.v) /\ UNCHANGED stdout
    ELSE IF ~Falsy(r.val)
    THEN /\ stdout' = Append(stdout, "result")
         /\ stderr' = err
         /\ runReturn
    ELSE /\ stderr' = Append(err, "Error: Failed to process image.")
         /\ runReturn
         /\ UNCHANGED stdout

----------------------------------------------------------------------------
(* Ocr.extract after its awaits *)

\* loadImageBase64 returned: extract goes on into aiOCR, which builds the
\* messages and calls generateObject
loadSucceeded(bytes) ==
    /\ load' = "ok"
    /\ imageBase64' = toBase64(bytes)
    /\ messages' = getOCRPromptMessages(toBase64(bytes), format)
    /\ providerCalls' = providerCalls + 1
    /\ stages' = stages \o <<"encode", "prompt", "invoke">>
    /\ pc' = "provider"
    /\ UNCHANGED <<result, stderr, exitCode, fetchCount, readCount>>

\* a load failure that is swallowed: extract goes on with an empty image
loadFailedGoesOn(error) ==
    /\ load' = "failed"
    /\ imageBase64' = <<>>
    /\ messages' = getOCRPromptMessages(<<>>, format)
    /\ providerCalls' = providerCalls + 1
    /\ stages' = stages \o <<"encode", "prompt", "invoke">>
    /\ pc' = "provider"
    /\ UNCHANGED <<result, stderr, exitCode, fetchCount, readCount>>

\* a load failure that is retried once before it is reported
loadFailedRetries(error) ==
    IF fetchCount + readCount < 2
    THEN /\ load' = "pending"
         /\ IF isUrl(imageSource)
            THEN fetchCount' = fetchCount + 1 /\ UNCHANGED readCount
            ELSE readCount' = readCount + 1 /\ UNCHANGED fetchCount
         /\ pc' = "load"
         /\ UNCHANGED <<result, stderr, exitCode, imageBase64, messages,
                        providerCalls, stages>>
    ELSE /\ load' = "failed"
         /\ result' = Throw(LoadErrorMessage(imageSource, error))
         /\ IF mode = "cli"
            THEN processImageThrow(stderr, LoadErrorMessage(imageSource, error))
            ELSE pc' = "done" /\ UNCHANGED <<stderr, exitCode>>
         /\ UNCHANGED <<imageBase64, messages, providerCalls, stages,
                        fetchCount, readCount>>

\* loadImageBase64 threw: extract rejects with the same error
loadFailed(error) ==
    /\ load' = "failed"
    /\ result' = Throw(LoadErrorMessage(imageSource, error))
    /\ IF mode = "cli"
       THEN processImageThrow(stderr, LoadErrorMessage(imageSource, error))
       ELSE pc' = "done" /\ UNCHANGED <<stderr, exitCode>>
    /\ UNCHANGED <<imageBase64, messages, providerCalls, stages, fetchCount, readCount>>

\* the read or the fetch of loadImageBase64 settles
LoadReturn ==
    /\ pc = "load"
    /\ \E o \in LoadOutcomes(imageSource) :
          IF o.ok THEN loadSucceeded(o.bytes) ELSE loadFailed(o.error)
    /\ UNCHANGED <<ocrs, calls, started, mode, argv, hasCredentials, options, imageSource, optFormat,
                   format, provider, ocrResult, statCount, jsonParsed, stdout>>

\* generateObject settles: the rest of aiOCR, of extract and of its caller
ProviderReturn ==
    /\ pc = "provider"
    /\ \E outcome \in ProviderOutcomes(hasCredentials) :
          LET c == aiOCR(outcome)
              tail == extractTail(format, c)
              err == stderr \o aiOCRLog(outcome)
          IN  /\ provider' = outcome
              /\ ocrResult' = IF c.kind = "return" THEN c.val ELSE Null
              /\ result' = tail.result
              /\ jsonParsed' = tail.jsonParsed
              /\ stages' = IF tail.formatted THEN Append(stages, "format") ELSE stages
              /\ IF mode = "cli"
                 THEN processImageTail(tail.result, err)
                 ELSE /\ pc' = "done"
                      /\ stderr' = err
                      /\ UNCHANGED <<stdout, exitCode>>
    /\ UNCHANGED <<ocrs, calls, started, mode, argv, hasCredentials, options, imageSource, optFormat,
                   format, load, imageBase64, messages, fetchCount, readCount,
                   statCount, providerCalls>>

Next ==
    \/ CliRun
    \/ LibExtract
    \/ StatReturn
    \/ LoadReturn
    \/ ProviderReturn

Spec == Init /\ [][Next]_vars

----------------------------------------------------------------------------
(* Two extract calls in one process, interleaving at their awaits.  Each   *)
(* call is made on one of two Ocr instances (possibly the same one); its   *)
(* locals are its own, the instance field imageSource is shared by the     *)
(* calls made on the instance.                                             *)

CallIds == {1, 2}

\* the provider responses of the concurrent calls
ConcPayloads ==
    {Payload(Str(r)) : r \in {<<>>, SampleObject, SampleBroken, SampleText}}
        \cup {Payload([t |-> "num", v |-> 42])}

ConcProviderOutcomes(credentials) ==
    IF credentials
    THEN {Rejected("network error")} \cup {Resolved(p) : p \in ConcPayloads}
    ELSE {Rejected("API key is missing")}

NoLoad == [ok |-> FALSE, bytes |-> <<>>, error |-> "pending"]

\* an extract call that has not begun: on instance inst, with options.format f
NewCall(instance, f) ==
    [inst |-> instance, optFormat |-> f, format |-> Undefined, pc |-> "start",
     loaded |-> NoLoad, imageBase64 |-> <<>>, messages |-> <<>>,
     provider |-> NoOutcome, result |-> NoResult]

ConcInit ==
    /\ ocrs \in [{1, 2} -> {LibraryImage, RemoteImage}]
    /\ \E i2 \in {1, 2} : \E f1 \in Formats \cup {Undefined} :
       \E f2 \in Formats \cup {Undefined} :
          calls = [c \in CallIds |-> IF c = 1 THEN NewCall(1, f1) ELSE NewCall(i2, f2)]
    /\ started = <<>>
    /\ mode = "lib"
    /\ hasCredentials \in BOOLEAN
    /\ argv = <<>>
    /\ imageSource = Undefined
    /\ optFormat = Undefined
    /\ options = NoOptions
    /\ format = Undefined
    /\ pc = "start"
    /\ load = "none"
    /\ imageBase64 = <<>>
    /\ messages = <<>>
    /\ provider = NoOutcome
    /\ ocrResult = Null
    /\ result = NoResult
    /\ stages = <<>>
    /\ fetchCount = 0
    /\ readCount = 0
    /\ statCount = 0
    /\ providerCalls = 0
    /\ jsonParsed = FALSE
    /\ stdout = <<>>
    /\ stderr = <<>>
    /\ exitCode = NoExit

\* the variables of the single run, which the concurrent calls leave alone
runVars ==
    <<mode, argv, hasCredentials, options, imageSource, optFormat, format, pc,
      load, imageBase64, messages, provider, ocrResult, result, stages,
      fetchCount, readCount, statCount, providerCalls, jsonParsed, stdout,
      stderr, exitCode>>

\* this.imageSource as call c reads it
callSource(c) == ocrs[calls[c].inst]

\* a format kept in one place for all calls: the latest call's format
callFormatShared(c) == calls[started[Len(started)]].format

\* the format parameter of call c, a local of the call
callFormat(c) == calls[c].format

\* call c begins: the parameter default, then loadImageBase64 up to its await
ConcExtract(c) ==
    /\ calls[c].pc = "start"
    /\ calls' = [calls EXCEPT ![c].format = DefaultFormat(calls[c].optFormat),
                              ![c].pc = "load"]
    /\ started' = Append(started, c)
    /\ UNCHANGED ocrs
    /\ UNCHANGED runVars

\* the read or fetch of call c settles; on success aiOCR builds the messages
\* and calls generateObject
ConcLoadReturn(c) ==
    /\ calls[c].pc = "load"
    /\ \E o \in LoadOutcomes(callSource(c)) :
          calls' =
            IF o.ok
            THEN [calls EXCEPT ![c].loaded = o,
                               ![c].imageBase64 = toBase64(o.bytes),
                               ![c].messages =
                                   getOCRPromptMessages(toBase64(o.bytes), callFormat(c)),
                               ![c].pc = "provider"]
            ELSE [calls EXCEPT ![c].loaded = o,
                               ![c].result =
                                   Throw(LoadErrorMessage(callSource(c), o.error)),
                               ![c].pc = "done"]
    /\ UNCHANGED <<ocrs, started>>
    /\ UNCHANGED runVars

\* generateObject of call c settles: the rest of aiOCR and of extract
ConcProviderReturn(c) ==
    /\ calls[c].pc = "provider"
    /\ \E outcome \in ConcProviderOutcomes(hasCredentials) :
          calls' = [calls EXCEPT ![c].provider = outcome,
                                 ![c].result =
                                     extractTail(callFormat(c), aiOCR(outcome)).result,
                                 ![c].pc = "done"]
    /\ UNCHANGED <<ocrs, started>>
    /\ UNCHANGED runVars

ConcNext ==
    \/ \E c \in CallIds : ConcExtract(c)
    \/ \E c \in CallIds : ConcLoadReturn(c)
    \/ \E c \in CallIds : ConcProviderReturn(c)

SpecConcurrent == ConcInit /\ [][ConcNext]_vars

----------------------------------------------------------------------------
(* Properties *)

\* the run is over: extract settled (library) or the process ended (CLI)
Settled == pc \in {"done", "exited"}

\* the provider call resolved with a payload that conforms to the schema
ProviderSucceeded ==
    provider.kind = "resolved" /\ provider.payload.response.t = "str"

\* the provider call settled, and not with a conforming payload
ProviderFailed ==
    \/ provider.kind = "rejected"
    \/ provider.kind = "resolved" /\ provider.payload.response.t # "str"

\* the raw string of a successful provider call
Raw == provider.payload.response.v

IsPrefix(s, t) == Len(s) <= Len(t) /\ \A i \in 1..Len(s) : s[i] = t[i]

InSeq(x, s) == \E i \in DOMAIN s : s[i] = x

\* C1: when loading the image fails (local read or remote fetch), extract
\* ends with a thrown error and the provider is never called in that call:
\* no generateObject call, no messages built, no provider outcome.
C1_LoadFailureNeverCallsProvider ==
    load = "failed" =>
        /\ Settled
        /\ result.kind = "throw"
        /\ providerCalls = 0
        /\ messages = <<>>
        /\ provider = NoOutcome
        /\ ~InSeq("invoke", stages)

C1_Witness ==
    /\ load = "failed"
    /\ result.kind = "throw"
    /\ isUrl(imageSource)
    /\ format = "json"

\* C2: when the provider call fails (rejection, or a payload that fails the
\* one-string-field schema), aiOCR yields null without raising, and extract
\* returns null without raising, whatever the format.
C2_ProviderFailureReturnsNull ==
    ProviderFailed =>
        /\ ocrResult = Null
        /\ result = Return(Null)

C2_Witness ==
    /\ provider.kind = "resolved"
    /\ provider.payload.response.t = "num"
    /\ result = Return(Null)
    /\ format = "json"

\* C3 (as claimed): with format json and a successful provider call with raw
\* string r, extract returns the decoded value if r is valid JSON, and for
\* every other r (the empty string included) throws a parse error.
C3_JsonDecodedIffValid ==
    (Settled /\ format = "json" /\ ProviderSucceeded) =>
        LET parsed == JSONParse(Raw)
        IN  IF parsed.ok
            THEN result = Return(parsed.val)
            ELSE result.kind = "throw"

\* C4 (as claimed): with format text or markdown and a successful provider
\* call with raw string r, extract returns exactly r, the empty string
\* included.
C4_TextReturnedUnchanged ==
    (Settled /\ format \in {"text", "markdown"} /\ ProviderSucceeded) =>
        result = Return(Str(Raw))

\* C5: extract returns a non-null value only if the provider call succeeded
\* with a payload conforming to {response: string}; after any other outcome
\* of the provider call the result is null.
C5_NonNullOnlyFromConformingPayload ==
    /\ (result.kind = "return" /\ result.val.t # "null") => ProviderSucceeded
    /\ ProviderFailed => result = Return(Null)

C5_Witness ==
    /\ result.kind = "return"
    /\ result.val.t = "obj"
    /\ ProviderSucceeded
    /\ format = "json"

\* C6 (as claimed): without provider credentials in the environment no
\* extraction step is attempted: no image read, no image fetch, no provider
\* call; the run ends with an error before them.
C6_NoExtractionWithoutCredentials ==
    ~hasCredentials =>
        /\ fetchCount = 0
        /\ readCount = 0
        /\ providerCalls = 0
        /\ (Settled /\ mode = "cli" => exitCode = 1)

\* processing of the image failed in a CLI run: the path is not a file, the
\* image could not be loaded, the provider call failed, or the JSON was
\* malformed
ProcessingFailed ==
    \/ statCount = 1 /\ load = "none" /\ pc = "exited"
    \/ load = "failed"
    \/ ProviderFailed
    \/ result.kind = "throw"

\* C7 (as claimed): in every CLI run in which processing the image fails, an
\* error is written to standard error, the exit status is non-zero and no
\* result is written.
C7_CliFailureExitsNonZero ==
    (mode = "cli" /\ Settled /\ ProcessingFailed) =>
        /\ stderr # <<>>
        /\ exitCode = 1
        /\ ~InSeq("result", stdout)

\* the -t/--type flag is followed by a value outside the supported formats,
\* or by nothing
BadFormatFlag(args) ==
    \E i \in DOMAIN args :
        /\ args[i] \in {"-t", "--type"}
        /\ ArgAt(args, i + 1) \notin Formats

HelpOrVersion(args) ==
    \E i \in DOMAIN args : args[i] \in {"-h", "--help", "-v", "--version"}

\* C8 (as claimed): when -t/--type is followed by a value that is not a
\* supported format, or by nothing, extract is never called and the run ends
\* with the invalid-format error and a non-zero status.  Runs with a help or
\* version flag are left out of the statement.
C8_InvalidFormatRejected ==
    (mode = "cli" /\ BadFormatFlag(argv) /\ ~HelpOrVersion(argv)) =>
        /\ stages = <<>>
        /\ Settled =>
            /\ InSeq("Error: Invalid format specified!", stderr)
            /\ exitCode = 1

\* no format was asked for: extract called without a format field, or the
\* CLI run without -t/--type
NoFormatSpecified ==
    \/ mode = "lib" /\ optFormat = Undefined
    \/ mode = "cli" /\ FormatIndex(argv) = 0

PipelineStages == <<"load", "encode", "prompt", "invoke", "format">>

\* C10: the stages of one extract call run in the order load, encode, build
\* prompt, invoke provider, format; encoding starts only after a successful
\* load, formatting only after a successful provider call; the image is
\* read or fetched at most once and the provider is called at most once.
C10_StagesInOrderNoRetry ==
    /\ IsPrefix(stages, PipelineStages)
    /\ InSeq("encode", stages) => load = "ok"
    /\ InSeq("invoke", stages) <=> providerCalls = 1
    /\ InSeq("format", stages) => ProviderSucceeded
    /\ fetchCount + readCount <= 1
    /\ providerCalls <= 1

C10_Witness ==
    /\ stages = PipelineStages
    /\ fetchCount = 1
    /\ providerCalls = 1

\* what extract returns or throws for call c when it runs alone: a function
\* of its instance's image reference, its format option and the responses to
\* its own read or fetch and its own provider call
ExpectedResult(c) ==
    IF ~calls[c].loaded.ok
    THEN Throw(LoadErrorMessage(callSource(c), calls[c].loaded.error))
    ELSE extractTail(DefaultFormat(calls[c].optFormat), aiOCR(calls[c].provider)).result

\* the request call c sends when it runs alone
ExpectedMessages(c) ==
    getOCRPromptMessages(toBase64(calls[c].loaded.bytes),
                         DefaultFormat(calls[c].optFormat))

\* the outcome of every call is the one it has when it runs alone
CallsIndependent ==
    \A c \in CallIds :
        /\ calls[c].pc = "done" => calls[c].result = ExpectedResult(c)
        /\ (calls[c].pc \in {"provider", "done"} /\ calls[c].loaded.ok) =>
               calls[c].messages = ExpectedMessages(c)

\* C11: for two extract calls interleaving at their awaits, the request each
\* call sends and the result it returns or throws depend only on its own
\* image reference, format and I/O responses, whatever the interleaving, and
\* no step of a call changes the imageSource of an Ocr instance.
C11_ConcurrentCallsIndependent ==
    /\ []CallsIndependent
    /\ [][ocrs' = ocrs]_vars

C11_Witness ==
    /\ started = <<2, 1>>
    /\ calls[1].pc = "done"
    /\ calls[2].pc = "load"
    /\ calls[1].inst = calls[2].inst
    /\ calls[1].format = "json"
    /\ calls[2].format = "text"
    /\ calls[1].result.kind = "return"
    /\ calls[1].result.val.t = "obj"

\* C12: getOCRPromptMessages returns exactly two messages, system then user;
\* the system content is the same text for every format; the user message is
\* a text part naming the requested format and the 'response' field, followed
\* by an image part carrying the encoded image unchanged.
C12_PromptMessagesShape ==
    messages # <<>> =>
        /\ Len(messages) = 2
        /\ messages[1].role = "system"
        /\ messages[1].content = SystemPrompt
        /\ messages[2].role = "user"
        /\ Len(messages[2].content) = 2
        /\ messages[2].content[1].type = "text"
        /\ messages[2].content[1].text[2] = format
        /\ messages[2].content[1].text[4] = "response"
        /\ messages[2].content[2].type = "image"
        /\ messages[2].content[2].image = imageBase64

C12_Witness ==
    /\ messages # <<>>
    /\ format = "markdown"
    /\ load = "ok"
    /\ messages[2].content[2].image = toBase64(<<255, 216, 255>>)
    /\ messages[2].content[1].text[2] = "markdown"

\* the messages of the Errors loadImageBase64 can throw on each path
FetchErrors ==
    {"Failed to fetch image from URL: " \o e :
        e \in {"Request failed with status code 404", "getaddrinfo ENOTFOUND"}}

FileReadErrors ==
    {"Failed to read local image file: " \o e :
        e \in {"ENOENT: no such file or directory",
               "EISDIR: illegal operation on a directory"}}

\* C13: loadImageBase64 takes exactly one of two paths.  A reference that
\* parses as a URL is fetched once and never read from the file system, and
\* a failed fetch (thrown, or a non-success status) throws the fetch error;
\* any other reference is read once from the file system and never fetched,
\* and a failed read throws the file-read error.
C13_LoadTakesOnePath ==
    load # "none" =>
        IF isUrl(imageSource)
        THEN /\ fetchCount = 1
             /\ readCount = 0
             /\ load = "failed" =>
                    (result.kind = "throw" /\ result.val.v \in FetchErrors)
        ELSE /\ readCount = 1
             /\ fetchCount = 0
             /\ load = "failed" =>
                    (result.kind = "throw" /\ result.val.v \in FileReadErrors)

C13_Witness ==
    /\ isUrl(imageSource)
    /\ load = "failed"
    /\ fetchCount = 1
    /\ readCount = 0
    /\ result.val.v = "Failed to fetch image from URL: Request failed with status code 404"

\* the argument list holds a positional image argument: an argument is left
\* once the first -t/--type and its supported format value are taken out
HasPositional(args) ==
    LET i == FormatIndex(args)
    IN  IF i # 0 /\ ArgAt(args, i + 1) \in Formats
        THEN Len(args) > 2
        ELSE Len(args) > 0

\* the number of extract calls made so far: each begins with the load stage
ExtractCalls == Cardinality({i \in DOMAIN stages : stages[i] = "load"})

====
